---- MODULE Spec2Model ----
(***************************************************************************)
(* FlagStore (src/src/FlagStore.js): a two-layer flag store.  The real     *)
(* layer `flags` is replaced wholesale by setFlags; the override layer     *)
(* `flagOverrides` is allocated lazily and reset to undefined when empty.  *)
(* JavaScript objects are references: the model tracks which object the    *)
(* caller's retained reference designates, so that a map handed out by an  *)
(* accessor can be told apart from a copy of it.                           *)
(***************************************************************************)
EXTENDS Naturals, FiniteSets, TLC

\* ----------------------------------------------------------------- the state

VARIABLES
    flags,          \* the real layer: key -> flag record
    flagOverrides,  \* the override layer: undefined, or an object key -> {value}
    held,           \* the map the caller last passed or was handed
    ret,            \* what the last get returned
    pre,            \* the store before the last call
    op,             \* the last call: its name, key and value
    prevOp,         \* the call before it, when that was a setOverride
    reference       \* a store given the same calls that keeps its override
                    \* map always present, empty or not

vars == <<flags, flagOverrides, held, ret, pre, op, prevOp, reference>>

\* ------------------------------------------------------------------ bounds

\* Flag keys the callers use (ordinary flag keys, own properties only).
Keys == {"a", "b"}

\* Flag records carry versions 1..MaxVersion.
MaxVersion == 1

\* Values a caller passes to setOverride; "" is a falsy JavaScript value.
OverrideValues == {"on", ""}

\* The value of a real flag record.
FlagValues == {"real"}

\* ---------------------------------------------------------- JavaScript values

\* Every JavaScript value of the model has the same shape: its type, and the
\* properties value / version / deleted (version 0 and deleted FALSE stand for
\* a property that is not there, which reads as undefined).
JsValue(t, value, version, deleted) ==
    [t |-> t, value |-> value, version |-> version, deleted |-> deleted]

Undefined == JsValue("undefined", "", 0, FALSE)
\* Stands for a call that ended by throwing a TypeError.
TypeError == JsValue("TypeError", "", 0, FALSE)
Null == JsValue("null", "", 0, FALSE)
Zero == JsValue("number", "", 0, FALSE)

\* A record of the real layer: {value, version} or {value, version, deleted: true}.
FlagRecord(value, version, deleted) == JsValue("object", value, version, deleted)

\* JavaScript truthiness: objects are truthy; undefined, null and 0 are not.
Truthy(x) == x.t = "object"

\* A JavaScript object used as a map: the function from its own keys.
EmptyObject == [k \in {} |-> Undefined]

\* obj[key]: the property, or undefined when the object has no such key.
Prop(obj, key) == IF key \in DOMAIN obj THEN obj[key] ELSE Undefined

\* delete obj[key]
Delete(obj, key) == [k \in DOMAIN obj \ {key} |-> obj[k]]

\* obj[key] = val
Put(obj, key, val) == [k \in DOMAIN obj \cup {key} |-> IF k = key THEN val ELSE obj[k]]

\* { ...obj }: a new object with the same own properties.
Spread(obj) == [k \in DOMAIN obj |-> obj[k]]

\* `let flagOverrides;`: either undefined or an object.
NoOverrides == [isObject |-> FALSE, props |-> EmptyObject]
OverridesObject(props) == [isObject |-> TRUE, props |-> props]

\* ------------------------------------------------------------ the operations

OverrideRecord(value) == JsValue("object", value, 0, FALSE)

\* get with the two layers consulted in the wrong order.
get_realFirst(f, o, key) ==
    IF key \in DOMAIN f /\ Truthy(f[key]) /\ ~f[key].deleted
    THEN f[key]
    ELSE IF o.isObject /\ key \in DOMAIN o.props /\ Truthy(o.props[key])
         THEN o.props[key]
         ELSE Null

\* get letting a tombstone of the real layer hide the key altogether.
get_tombstoneFirst(f, o, key) ==
    IF key \in DOMAIN f /\ Truthy(f[key]) /\ f[key].deleted
    THEN Null
    ELSE IF o.isObject /\ key \in DOMAIN o.props /\ Truthy(o.props[key])
         THEN o.props[key]
         ELSE IF key \in DOMAIN f /\ Truthy(f[key]) THEN f[key] ELSE Null

\* get testing the override's value, not the override record, for truthiness.
get_truthyValue(f, o, key) ==
    IF o.isObject /\ key \in DOMAIN o.props /\ o.props[key].value # ""
    THEN o.props[key]
    ELSE IF key \in DOMAIN f /\ Truthy(f[key]) /\ ~f[key].deleted
         THEN f[key]
         ELSE Null

\* get without the `flagOverrides &&` guard: it reads a property of undefined.
get_readsUndefined(f, o, key) ==
    IF ~o.isObject
    THEN TypeError
    ELSE IF key \in DOMAIN o.props /\ Truthy(o.props[key])
         THEN o.props[key]
         ELSE IF key \in DOMAIN f /\ Truthy(f[key]) /\ ~f[key].deleted
              THEN f[key]
              ELSE Null

\* get without the truthiness test of flags[key]: (0).deleted is undefined.
get_noTruthyCheck(f, o, key) ==
    IF o.isObject /\ key \in DOMAIN o.props /\ Truthy(o.props[key])
    THEN o.props[key]
    ELSE IF key \in DOMAIN f /\ ~f[key].deleted
         THEN f[key]
         ELSE Null

get(f, o, key) ==
    IF o.isObject /\ key \in DOMAIN o.props /\ Truthy(o.props[key])
    THEN o.props[key]
    ELSE IF key \in DOMAIN f /\ Truthy(f[key]) /\ ~f[key].deleted
         THEN f[key]
         ELSE Null

\* getFlagsWithOverrides without its second loop, over the override keys.
getFlagsWithOverrides_flagsOnly(f, o) ==
    [k \in {k \in DOMAIN f : Truthy(get(f, o, k))} |-> get(f, o, k)]

getFlagsWithOverrides(f, o) ==
    LET fromFlags == {k \in DOMAIN f : Truthy(get(f, o, k))}
        fromOverrides == IF o.isObject
                         THEN {k \in DOMAIN o.props : Truthy(get(f, o, k))}
                         ELSE {}
    IN [k \in fromFlags \cup fromOverrides |-> get(f, o, k)]

\* setFlags merging the new flags into the old ones: { ...flags, ...newFlags }.
setFlags_merges(newFlags) ==
    [k \in DOMAIN flags \cup DOMAIN newFlags |->
        IF k \in DOMAIN newFlags THEN newFlags[k] ELSE flags[k]]

setFlags(newFlags) == Spread(newFlags)

\* setOverride keeping an override the key already has.
setOverride_keepsFirst(o, key, value) ==
    LET allocated == IF ~o.isObject THEN EmptyObject ELSE o.props
    IN IF key \in DOMAIN allocated
       THEN OverridesObject(allocated)
       ELSE OverridesObject(Put(allocated, key, OverrideRecord(value)))

setOverride(o, key, value) ==
    LET allocated == IF ~o.isObject THEN EmptyObject ELSE o.props
    IN OverridesObject(Put(allocated, key, OverrideRecord(value)))

\* removeOverride with the test of flagOverrides[key] not negated.
removeOverride_guardInverted(o, key) ==
    IF ~o.isObject \/ Truthy(Prop(o.props, key))
    THEN o
    ELSE IF DOMAIN Delete(o.props, key) = {}
         THEN NoOverrides
         ELSE OverridesObject(Delete(o.props, key))

\* removeOverride resetting the layer while one override is still left.
removeOverride_resetsEarly(o, key) ==
    IF ~o.isObject \/ ~Truthy(Prop(o.props, key))
    THEN o
    ELSE IF Cardinality(DOMAIN Delete(o.props, key)) <= 1
         THEN NoOverrides
         ELSE OverridesObject(Delete(o.props, key))

\* removeOverride without the reset of an emptied layer to undefined.
removeOverride_keepsEmptyObject(o, key) ==
    IF ~o.isObject \/ ~Truthy(Prop(o.props, key))
    THEN o
    ELSE OverridesObject(Delete(o.props, key))

\* The guard with its operands swapped: flagOverrides[key] is read first.
removeOverrideThrows_readsFirst(o, key) == ~o.isObject

\* Whether removeOverride throws: reading flagOverrides[key] of an undefined
\* flagOverrides is a TypeError, and `||` reads it only when `!flagOverrides`
\* is false.
removeOverrideThrows(o, key) ==
    IF ~o.isObject THEN FALSE ELSE ~o.isObject

removeOverride(o, key) ==
    IF ~o.isObject \/ ~Truthy(Prop(o.props, key))
    THEN o
    ELSE IF DOMAIN Delete(o.props, key) = {}
         THEN NoOverrides
         ELSE OverridesObject(Delete(o.props, key))

\* The copy taken after the reset instead of before it.
clearedOverrides_afterReset(o) == EmptyObject

\* The object clearAllOverrides returns.
clearedOverrides(o) == IF ~o.isObject THEN EmptyObject ELSE Spread(o.props)

clearAllOverrides(o) == NoOverrides

\* ------------------------------------------------------- references to objects

\* A reference to an object: to the store's flags object, to the store's
\* flagOverrides object, or to an object of the caller's own (props: what that
\* object holds; the store's objects are read through the store).
Internal(target) == [target |-> target, props |-> EmptyObject]
Own(props) == [target |-> "own", props |-> props]

\* getFlags handing out the resolved view instead of the raw layer.
getFlags_resolved(f) == Own(getFlagsWithOverrides(f, flagOverrides))

\* `return flags;`
getFlags(f) == Internal("flags")

\* `return flagOverrides || {};`
getFlagOverrides(o) == IF o.isObject THEN Internal("flagOverrides") ELSE Own(EmptyObject)

\* A fast path handing out the override object when there are no real flags.
getFlagsWithOverridesResult_fastPath(f, o) ==
    IF o.isObject /\ DOMAIN f = {}
    THEN Internal("flagOverrides")
    ELSE Own(getFlagsWithOverrides(f, o))

\* `const result = {}; ... return result;`
getFlagsWithOverridesResult(f, o) == Own(getFlagsWithOverrides(f, o))

\* `const clearedOverrides = { ...flagOverrides }; ... return clearedOverrides;`
clearAllOverridesResult(o) == Own(clearedOverrides(o))

\* setFlags keeping the caller's object: flags = newFlags.
setFlagsArgument_aliased(newFlags) == Internal("flags")

\* What the caller's map designates after setFlags(newFlags): still the
\* caller's object, the store having taken a copy.
setFlagsArgument(newFlags) == Own(newFlags)

\* The properties of the object a reference designates, in store (f, o).
Deref(r, f, o) ==
    CASE r.target = "flags" -> f
      [] r.target = "flagOverrides" -> o.props
      [] OTHER -> r.props

\* The caller's reference r, obtained from the call `from`.
Held(r, from) == [target |-> r.target, props |-> r.props, from |-> from]
NoReference == [target |-> "none", props |-> EmptyObject, from |-> "none"]

\* The caller's reference after the store dropped its flagOverrides object,
\* which held oldProps: it designates the old object, no longer the store's.
Detach(h, overridesDropped, oldProps) ==
    IF h.target = "flagOverrides" /\ overridesDropped
    THEN Held(Own(oldProps), h.from)
    ELSE h

\* ---------------------------------------------------------- the reference store

\* The reference store: the real layer and an override map that is always
\* there. Its operations are the store's, on a plain map.
Reference(f, m) == [flags |-> f, overrides |-> m]

refGet(r, key) ==
    IF key \in DOMAIN r.overrides
    THEN r.overrides[key]
    ELSE IF key \in DOMAIN r.flags /\ Truthy(r.flags[key]) /\ ~r.flags[key].deleted
         THEN r.flags[key]
         ELSE Null

refGetFlagsWithOverrides(r) ==
    [k \in {k \in DOMAIN r.flags \cup DOMAIN r.overrides : Truthy(refGet(r, k))} |->
        refGet(r, k)]

refSetFlags(r, newFlags) == Reference(newFlags, r.overrides)
refSetOverride(r, key, value) ==
    Reference(r.flags, Put(r.overrides, key, OverrideRecord(value)))
refRemoveOverride(r, key) == Reference(r.flags, Delete(r.overrides, key))
refClearAllOverrides(r) == Reference(r.flags, EmptyObject)

\* ------------------------------------------------------------------ the calls

Store == [flags |-> flags, flagOverrides |-> flagOverrides]

Call(name, key, value) == [name |-> name, key |-> key, value |-> value]

\* The records setFlags may be given: live records, tombstones, and a record
\* that is no object at all (the number 0).
FlagRecords ==
    {FlagRecord(v, n, d) : v \in FlagValues, n \in 1..MaxVersion, d \in BOOLEAN}
    \cup {Zero}

Maps(S, T) == UNION {[D -> T] : D \in SUBSET S}
FlagMaps == Maps(Keys, FlagRecords)

\* What a caller stores in a map it was handed: records of the shape the
\* override layer holds.
CallerValues == {OverrideRecord(v) : v \in OverrideValues}

Init ==
    /\ flags = EmptyObject
    /\ flagOverrides = NoOverrides
    /\ held = NoReference
    /\ ret = Undefined
    /\ pre = [flags |-> EmptyObject, flagOverrides |-> NoOverrides]
    /\ op = Call("new", "", "")
    /\ prevOp = Call("other", "", "")
    /\ reference = Reference(EmptyObject, EmptyObject)

\* What the next step remembers of the call before it: a setOverride and its
\* key, or that it was another call.
Before(call) ==
    IF call.name = "setOverride"
    THEN Call(call.name, call.key, "")
    ELSE Call("other", "", "")

\* Bookkeeping of every step: remember the store it started from.
Record(call) ==
    /\ pre' = Store
    /\ prevOp' = Before(op)
    /\ op' = call

CallGet(key) ==
    /\ ret' = get(flags, flagOverrides, key)
    /\ Record(Call("get", key, ""))
    /\ UNCHANGED <<flags, flagOverrides, held, reference>>

CallGetFlagsWithOverrides ==
    /\ held' = Held(getFlagsWithOverridesResult(flags, flagOverrides), "getFlagsWithOverrides")
    /\ ret' = Undefined
    /\ Record(Call("getFlagsWithOverrides", "", ""))
    /\ UNCHANGED <<flags, flagOverrides, reference>>

\* setFlags resetting the whole store, overrides included.
CallSetFlags_dropsOverrides(newFlags) ==
    /\ flags' = setFlags(newFlags)
    /\ flagOverrides' = NoOverrides
    /\ held' = Held(setFlagsArgument(newFlags), "setFlags")
    /\ ret' = Undefined
    /\ Record(Call("setFlags", "", ""))
    /\ reference' = refSetFlags(reference, newFlags)

CallSetFlags(newFlags) ==
    /\ flags' = setFlags(newFlags)
    /\ held' = Held(setFlagsArgument(newFlags), "setFlags")
    /\ ret' = Undefined
    /\ Record(Call("setFlags", "", ""))
    /\ reference' = refSetFlags(reference, newFlags)
    /\ UNCHANGED flagOverrides

CallSetOverride(key, value) ==
    /\ flagOverrides' = setOverride(flagOverrides, key, value)
    /\ ret' = Undefined
    /\ Record(Call("setOverride", key, value))
    /\ reference' = refSetOverride(reference, key, value)
    /\ UNCHANGED <<flags, held>>

CallRemoveOverride(key) ==
    /\ flagOverrides' = IF removeOverrideThrows(flagOverrides, key)
                        THEN flagOverrides
                        ELSE removeOverride(flagOverrides, key)
    /\ held' = Detach(held, flagOverrides.isObject /\ ~flagOverrides'.isObject,
                      Delete(flagOverrides.props, key))
    /\ ret' = IF removeOverrideThrows(flagOverrides, key) THEN TypeError ELSE Undefined
    /\ Record(Call("removeOverride", key, ""))
    /\ reference' = refRemoveOverride(reference, key)
    /\ UNCHANGED flags

CallClearAllOverrides ==
    /\ flagOverrides' = clearAllOverrides(flagOverrides)
    /\ held' = Held(clearAllOverridesResult(flagOverrides), "clearAllOverrides")
    /\ ret' = Undefined
    /\ Record(Call("clearAllOverrides", "", ""))
    /\ reference' = refClearAllOverrides(reference)
    /\ UNCHANGED flags

CallGetFlags ==
    /\ held' = Held(getFlags(flags), "getFlags")
    /\ ret' = Undefined
    /\ Record(Call("getFlags", "", ""))
    /\ UNCHANGED <<flags, flagOverrides, reference>>

\* getFlagOverrides allocating the layer it found undefined:
\* `return flagOverrides || (flagOverrides = {})`.
CallGetFlagOverrides_allocates ==
    /\ flagOverrides' = OverridesObject(flagOverrides.props)
    /\ held' = Held(Internal("flagOverrides"), "getFlagOverrides")
    /\ ret' = Undefined
    /\ Record(Call("getFlagOverrides", "", ""))
    /\ UNCHANGED <<flags, reference>>

CallGetFlagOverrides ==
    /\ held' = Held(getFlagOverrides(flagOverrides), "getFlagOverrides")
    /\ ret' = Undefined
    /\ Record(Call("getFlagOverrides", "", ""))
    /\ UNCHANGED <<flags, flagOverrides, reference>>

\* The calls of the store's interface.
StoreCall ==
    \/ \E key \in Keys : CallGet(key)
    \/ CallGetFlagsWithOverrides
    \/ \E newFlags \in FlagMaps : CallSetFlags(newFlags)
    \/ \E key \in Keys, value \in OverrideValues : CallSetOverride(key, value)
    \/ \E key \in Keys : CallRemoveOverride(key)
    \/ CallClearAllOverrides
    \/ CallGetFlags
    \/ CallGetFlagOverrides

Next == StoreCall

\* The store driven through its interface alone.
Spec == Init /\ [][Next]_vars

\* --------------------------------------------- callers that write to their maps

\* The object the caller's reference designates, after `held[key] = val` or
\* `delete held[key]` made its properties newProps: the store's own object
\* when the reference designates it (the reference store hands out its
\* objects in the same way).
CallerWrites(newProps) ==
    CASE held.target = "flagOverrides" ->
           /\ flagOverrides' = OverridesObject(newProps)
           /\ reference' = Reference(reference.flags, newProps)
           /\ UNCHANGED <<flags, held>>
      [] held.target = "flags" ->
           /\ flags' = newProps
           /\ reference' = Reference(newProps, reference.overrides)
           /\ UNCHANGED <<flagOverrides, held>>
      [] OTHER ->
           /\ held' = Held(Own(newProps), held.from)
           /\ UNCHANGED <<flags, flagOverrides, reference>>

\* A map that getFlags returned is read-only to its callers; every other map
\* the caller holds may be written to.
Writable == held.target # "none" /\ held.from # "getFlags"

CallerPut(key, val) ==
    /\ Writable
    /\ CallerWrites(Put(Deref(held, flags, flagOverrides), key, val))
    /\ ret' = Undefined
    /\ Record(Call("callerPut", key, val.value))

CallerDelete(key) ==
    /\ Writable
    /\ CallerWrites(Delete(Deref(held, flags, flagOverrides), key))
    /\ ret' = Undefined
    /\ Record(Call("callerDelete", key, ""))

NextCaller ==
    \/ StoreCall
    \/ \E key \in Keys, val \in CallerValues : CallerPut(key, val)
    \/ \E key \in Keys : CallerDelete(key)

\* The store and a caller that also writes to the maps it holds.
SpecCaller == Init /\ [][NextCaller]_vars

\* ------------------------------------------------------ the claims' vocabulary

\* K has an override: the override layer has an entry for K.
HasOverride(o, K) == o.isObject /\ K \in DOMAIN o.props

\* K has a real flag record: the real layer stores an object under K (a
\* stored value that is no object, such as 0, is no record).
HasRecord(f, K) == K \in DOMAIN f /\ f[K].t = "object"

\* K has a real flag record that is not tombstoned.
HasLiveRecord(f, K) == HasRecord(f, K) /\ ~f[K].deleted

\* What K resolves to through the real layer alone.
RealResolution(f, K) == IF HasLiveRecord(f, K) THEN f[K] ELSE Null

\* The entries of the override layer, absent or not.
Entries(o) == IF o.isObject THEN o.props ELSE EmptyObject

OverrideCalls == {"setOverride", "removeOverride", "clearAllOverrides"}
CallerWriteNames == {"callerPut", "callerDelete"}

\* ------------------------------------------------------------------- claims

\* C1: in every state reached by the store's calls and for every key K, get(K)
\* returns K's override record if K has an override; otherwise K's real flag
\* record if K has one and it is not tombstoned; otherwise null.
C1_GetResolves ==
    /\ \A K \in Keys :
         get(flags, flagOverrides, K) =
           IF HasOverride(flagOverrides, K) THEN flagOverrides.props[K]
           ELSE IF HasRecord(flags, K) /\ ~flags[K].deleted THEN flags[K]
           ELSE Null
    /\ op.name = "get" => ret = get(flags, flagOverrides, op.key)

\* A get of a key that has a live real record and an override, while the
\* other key is tombstoned and has no override.
C1_Witness ==
    /\ op.name = "get"
    /\ HasOverride(flagOverrides, op.key)
    /\ HasLiveRecord(flags, op.key)
    /\ ret = flagOverrides.props[op.key]
    /\ \E K \in Keys \ {op.key} :
         HasRecord(flags, K) /\ flags[K].deleted /\ ~HasOverride(flagOverrides, K)

\* C2: the map getFlagsWithOverrides returns includes every key with a live
\* real record and every key with an override, maps each of its keys to what
\* get returns for it (so the override where there is one), and has no key
\* for which get returns null.
C2_AllResolved ==
    op.name = "getFlagsWithOverrides" =>
        LET m == Deref(held, flags, flagOverrides) IN
        /\ \A K \in Keys :
             (HasLiveRecord(flags, K) \/ HasOverride(flagOverrides, K)) => K \in DOMAIN m
        /\ \A K \in DOMAIN m :
             /\ m[K] = get(flags, flagOverrides, K)
             /\ m[K] # Null
             /\ HasOverride(flagOverrides, K) => m[K] = flagOverrides.props[K]

\* getFlagsWithOverrides returned a map with an overridden real flag and an
\* override-only key.
C2_Witness ==
    /\ op.name = "getFlagsWithOverrides"
    /\ \E K1, K2 \in Keys :
         /\ HasLiveRecord(flags, K1) /\ HasOverride(flagOverrides, K1)
         /\ K2 \notin DOMAIN flags /\ HasOverride(flagOverrides, K2)
         /\ {K1, K2} \subseteq DOMAIN held.props

\* What a caller can observe of a store through get, getFlagOverrides and
\* getFlagsWithOverrides.
Observed(s) ==
    [get |-> [K \in Keys |-> get(s.flags, s.flagOverrides, K)],
     overrides |-> Deref(getFlagOverrides(s.flagOverrides), s.flags, s.flagOverrides),
     all |-> getFlagsWithOverrides(s.flags, s.flagOverrides)]

\* C3: a write by the caller to a map that getFlagOverrides returned changes
\* nothing that get, getFlagOverrides and getFlagsWithOverrides return
\* afterwards.
C3_OverridesAreACopy ==
    (op.name \in CallerWriteNames /\ held.from = "getFlagOverrides")
        => Observed(Store) = Observed(pre)

\* C4: setFlags leaves the override layer as it was; setOverride,
\* removeOverride and clearAllOverrides leave the real layer as it was.
C4_LayersIndependent ==
    /\ op.name = "setFlags" =>
         /\ flagOverrides = pre.flagOverrides
         /\ Entries(flagOverrides) = Entries(pre.flagOverrides)
    /\ op.name \in OverrideCalls => flags = pre.flags

\* setFlags replaced a non-empty real layer right after a setOverride.
C4_Witness ==
    /\ op.name = "setFlags"
    /\ prevOp.name = "setOverride"
    /\ flagOverrides.isObject
    /\ pre.flags # EmptyObject
    /\ flags # pre.flags

\* C5: a setOverride(K, V) followed at once by removeOverride(K) leaves K
\* resolving through the real layer alone; when K had no override before the
\* setOverride, the store after the pair is the store before it.
C5_RoundTrip ==
    [][(op.name = "setOverride" /\ op'.name = "removeOverride" /\ op'.key = op.key) =>
        /\ get(flags', flagOverrides', op.key) = RealResolution(flags', op.key)
        /\ ~HasOverride(pre.flagOverrides, op.key) => Store' = pre
      ]_vars

\* removeOverride(K) right after setOverride(K, V), K having a live real record.
C5_Witness ==
    /\ op.name = "removeOverride"
    /\ prevOp.name = "setOverride"
    /\ prevOp.key = op.key
    /\ HasLiveRecord(flags, op.key)
    /\ HasOverride(pre.flagOverrides, op.key)
    /\ ~HasOverride(flagOverrides, op.key)

\* C6: clearAllOverrides returns exactly the override entries there were
\* before the call (an empty map if none); afterwards getFlagOverrides is
\* empty and every key resolves through the real layer alone.
C6_ClearAll ==
    op.name = "clearAllOverrides" =>
        /\ Deref(held, flags, flagOverrides) = Entries(pre.flagOverrides)
        /\ Deref(getFlagOverrides(flagOverrides), flags, flagOverrides) = EmptyObject
        /\ \A K \in Keys : get(flags, flagOverrides, K) = RealResolution(flags, K)

\* clearAllOverrides cleared two overrides, one of them over a live real record.
C6_Witness ==
    /\ op.name = "clearAllOverrides"
    /\ DOMAIN Entries(pre.flagOverrides) = Keys
    /\ DOMAIN held.props = Keys
    /\ \E K \in Keys : HasLiveRecord(flags, K)

\* C7: after setFlags(M) the real layer has exactly M's keys (and entries),
\* and get(K) is null for every K outside M that has no override.
C7_SetFlagsReplaces ==
    op.name = "setFlags" =>
        LET M == Deref(held, flags, flagOverrides) IN
        /\ DOMAIN flags = DOMAIN M
        /\ flags = M
        /\ \A K \in Keys \ DOMAIN M :
             ~HasOverride(flagOverrides, K) => get(flags, flagOverrides, K) = Null

\* setFlags(M) with a non-empty M dropped a key that resolved before the call.
C7_Witness ==
    /\ op.name = "setFlags"
    /\ flags # EmptyObject
    /\ \E K \in Keys :
         /\ HasLiveRecord(pre.flags, K)
         /\ ~HasOverride(flagOverrides, K)
         /\ K \notin DOMAIN flags

\* The calls that end K's current override.
EndsOverride(call, K) ==
    \/ call.name \in {"setOverride", "removeOverride"} /\ call.key = K
    \/ call.name = "clearAllOverrides"

\* C8: setOverride(K, V) makes get(K) return {value: V}, and every later call
\* of the store, setFlags included, keeps it so until the next
\* setOverride(K, _), removeOverride(K) or clearAllOverrides.
C8_OverrideOutlives ==
    [][\A K \in Keys, V \in OverrideValues :
        /\ (op'.name = "setOverride" /\ op'.key = K /\ op'.value = V)
             => get(flags', flagOverrides', K) = OverrideRecord(V)
        /\ (get(flags, flagOverrides, K) = OverrideRecord(V) /\ ~EndsOverride(op', K))
             => get(flags', flagOverrides', K) = OverrideRecord(V)
        /\ (op'.name = "get" /\ op'.key = K /\ get(flags, flagOverrides, K) = OverrideRecord(V))
             => ret' = OverrideRecord(V)
      ]_vars

\* setFlags tombstoned a key that was live and overridden, and left out the
\* other, overridden too: both still resolve to their overrides.
C8_Witness ==
    /\ op.name = "setFlags"
    /\ \E K1, K2 \in Keys :
         /\ HasLiveRecord(pre.flags, K1) /\ HasRecord(flags, K1) /\ flags[K1].deleted
         /\ K2 \in DOMAIN pre.flags /\ K2 \notin DOMAIN flags
         /\ HasOverride(flagOverrides, K1) /\ HasOverride(flagOverrides, K2)
         /\ get(flags, flagOverrides, K1) = flagOverrides.props[K1]
         /\ get(flags, flagOverrides, K2) = flagOverrides.props[K2]

\* C9: removeOverride(K) for a key without an override throws nothing and
\* leaves both layers as they were.
C9_RemoveAbsentIsNoOp ==
    (op.name = "removeOverride" /\ ~HasOverride(pre.flagOverrides, op.key)) =>
        /\ ret # TypeError
        /\ Store = pre

\* removeOverride of a key without an override while the other key has one.
C9_Witness ==
    /\ op.name = "removeOverride"
    /\ ~HasOverride(pre.flagOverrides, op.key)
    /\ \E K \in Keys \ {op.key} : HasOverride(flagOverrides, K)

\* C10: removeOverride(K) for a key with an override removes K's override and
\* no other: the override entries afterwards are those before, minus K.
C10_RemoveOnlyK ==
    (op.name = "removeOverride" /\ HasOverride(pre.flagOverrides, op.key)) =>
        /\ ret # TypeError
        /\ ~HasOverride(flagOverrides, op.key)
        /\ \A K \in Keys \ {op.key} :
             /\ HasOverride(flagOverrides, K) <=> HasOverride(pre.flagOverrides, K)
             /\ HasOverride(flagOverrides, K) =>
                  flagOverrides.props[K] = pre.flagOverrides.props[K]
        /\ Entries(flagOverrides) = Delete(Entries(pre.flagOverrides), op.key)

\* removeOverride removed one of two overrides.
C10_Witness ==
    /\ op.name = "removeOverride"
    /\ DOMAIN Entries(pre.flagOverrides) = Keys
    /\ DOMAIN Entries(flagOverrides) = Keys \ {op.key}

\* C11: a setOverride(K, V1) followed at once by setOverride(K, V2) leaves the
\* override layer with one entry for K, {value: V2}, which get(K) returns,
\* and with the entries of all other keys as they were before the pair.
C11_LastWriteWins ==
    [][(op.name = "setOverride" /\ op'.name = "setOverride" /\ op'.key = op.key) =>
        /\ DOMAIN Entries(flagOverrides') = DOMAIN Entries(pre.flagOverrides) \cup {op.key}
        /\ Entries(flagOverrides')[op.key] = OverrideRecord(op'.value)
        /\ get(flags', flagOverrides', op.key) = OverrideRecord(op'.value)
        /\ \A K \in DOMAIN Entries(flagOverrides') \ {op.key} :
             Entries(flagOverrides')[K] = Entries(pre.flagOverrides)[K]
      ]_vars

\* A second setOverride of the same key with another value, the other key
\* being overridden too.
C11_Witness ==
    /\ op.name = "setOverride"
    /\ prevOp.name = "setOverride"
    /\ prevOp.key = op.key
    /\ pre.flagOverrides.props[op.key] # OverrideRecord(op.value)
    /\ flagOverrides.props[op.key] = OverrideRecord(op.value)
    /\ DOMAIN flagOverrides.props = Keys

\* C12: a write by the caller to a map that getFlagsWithOverrides returned
\* changes neither layer, nor anything that get, getFlagOverrides and
\* getFlagsWithOverrides return afterwards.
C12_AllResolvedIsFresh ==
    (op.name \in CallerWriteNames /\ held.from = "getFlagsWithOverrides") =>
        /\ Store = pre
        /\ Observed(Store) = Observed(pre)

\* The caller wrote to a non-empty map that getFlagsWithOverrides returned
\* while overrides exist, and the map now differs from what the store resolves.
C12_Witness ==
    /\ op.name \in CallerWriteNames
    /\ held.from = "getFlagsWithOverrides"
    /\ flagOverrides.isObject
    /\ flags # EmptyObject
    /\ held.props # getFlagsWithOverrides(flags, flagOverrides)

\* C13: whatever the value V, falsy or not, setOverride(K, V) makes get(K)
\* return {value: V} and puts K in the map getFlagsWithOverrides returns; and
\* removeOverride(K) removes K's override, whatever its value.
C13_PresenceWins ==
    [][/\ op'.name = "setOverride" =>
            /\ get(flags', flagOverrides', op'.key) = OverrideRecord(op'.value)
            /\ op'.key \in DOMAIN getFlagsWithOverrides(flags', flagOverrides')
            /\ getFlagsWithOverrides(flags', flagOverrides')[op'.key]
                 = OverrideRecord(op'.value)
       /\ (op'.name = "get" /\ HasOverride(flagOverrides, op'.key)) =>
            ret' = flagOverrides.props[op'.key]
       /\ (op'.name = "removeOverride" /\ HasOverride(flagOverrides, op'.key)) =>
            /\ ~HasOverride(flagOverrides', op'.key)
            /\ get(flags', flagOverrides', op'.key) = RealResolution(flags', op'.key)
      ]_vars

\* removeOverride(K) right after a setOverride(K, "") over a live real record.
C13_Witness ==
    /\ op.name = "removeOverride"
    /\ prevOp.name = "setOverride"
    /\ prevOp.key = op.key
    /\ HasOverride(pre.flagOverrides, op.key)
    /\ pre.flagOverrides.props[op.key] = OverrideRecord("")
    /\ get(pre.flags, pre.flagOverrides, op.key) = OverrideRecord("")
    /\ HasLiveRecord(flags, op.key)
    /\ ~HasOverride(flagOverrides, op.key)

\* C14: in every state the store's calls reach, flagOverrides is undefined or
\* holds at least one override; it is undefined at construction, after
\* clearAllOverrides, and after removeOverride removed the last override.
C14_LazyAllocation ==
    /\ flagOverrides.isObject => DOMAIN flagOverrides.props # {}
    /\ op.name \in {"new", "clearAllOverrides"} => flagOverrides = NoOverrides
    /\ (op.name = "removeOverride" /\ DOMAIN Entries(pre.flagOverrides) = {op.key})
         => flagOverrides = NoOverrides

\* removeOverride removed the only override there was.
C14_Witness ==
    /\ op.name = "removeOverride"
    /\ pre.flagOverrides.isObject
    /\ DOMAIN pre.flagOverrides.props = {op.key}
    /\ ~flagOverrides.isObject

\* C15: the store and the reference store, given the same calls, return equal
\* results from get, getFlagsWithOverrides, getFlagOverrides, getFlags and
\* clearAllOverrides, whether flagOverrides is undefined or an object.
C15_RepresentationInvisible ==
    /\ \A K \in Keys : get(flags, flagOverrides, K) = refGet(reference, K)
    /\ op.name = "get" => ret = refGet(reference, op.key)
    /\ Deref(getFlagsWithOverridesResult(flags, flagOverrides), flags, flagOverrides)
         = refGetFlagsWithOverrides(reference)
    /\ op.name = "getFlagsWithOverrides" =>
         Deref(held, flags, flagOverrides) = refGetFlagsWithOverrides(reference)
    /\ Deref(getFlagOverrides(flagOverrides), flags, flagOverrides) = reference.overrides
    /\ op.name = "getFlagOverrides" =>
         Deref(held, flags, flagOverrides) = reference.overrides
    /\ Deref(getFlags(flags), flags, flagOverrides) = reference.flags
    /\ op.name = "getFlags" => Deref(held, flags, flagOverrides) = reference.flags
    /\ Deref(clearAllOverridesResult(flagOverrides), flags, flagOverrides)
         = reference.overrides
    /\ op.name = "clearAllOverrides" =>
         /\ Deref(held, flags, flagOverrides) = Entries(pre.flagOverrides)
         /\ reference.overrides = EmptyObject

\* The last override was just removed: the store's layer is undefined, the
\* reference store's map is there and empty, and a real flag is live.
C15_Witness ==
    /\ op.name = "removeOverride"
    /\ pre.flagOverrides.isObject
    /\ ~flagOverrides.isObject
    /\ reference.overrides = EmptyObject
    /\ \E K \in Keys : HasLiveRecord(flags, K)

\* A stored value that get treats as absent: a falsy one, or a tombstone.
Malformed(x) == x.t # "object" \/ x.deleted

\* C16: setFlags stores any mapping as given and does not fail; a key whose
\* stored value is falsy or tombstoned resolves to null and is left out of
\* the map getFlagsWithOverrides returns, unless the key has an override.
C16_NoValidation ==
    /\ op.name = "setFlags" => flags = Deref(held, flags, flagOverrides)
    /\ \A K \in DOMAIN flags :
         (Malformed(flags[K]) /\ ~HasOverride(flagOverrides, K)) =>
             /\ get(flags, flagOverrides, K) = Null
             /\ K \notin DOMAIN getFlagsWithOverrides(flags, flagOverrides)
    /\ \A K \in DOMAIN flags :
         (Malformed(flags[K]) /\ HasOverride(flagOverrides, K)) =>
             /\ get(flags, flagOverrides, K) = flagOverrides.props[K]
             /\ K \in DOMAIN getFlagsWithOverrides(flags, flagOverrides)

\* setFlags stored the number 0 under a key without an override and a
\* tombstone under the other, which has one.
C16_Witness ==
    /\ op.name = "setFlags"
    /\ \E K1, K2 \in Keys :
         /\ K1 \in DOMAIN flags /\ flags[K1] = Zero /\ ~HasOverride(flagOverrides, K1)
         /\ K2 \in DOMAIN flags /\ flags[K2].t = "object" /\ flags[K2].deleted
         /\ HasOverride(flagOverrides, K2)

\* The entries of the map getFlags returns in store s.
RawFlags(s) == Deref(getFlags(s.flags), s.flags, s.flagOverrides)

\* C17: getFlags returns the entries of the map given to the latest setFlags,
\* tombstones included (the empty map before any setFlags); setOverride,
\* removeOverride and clearAllOverrides do not change what it returns.
C17_GetFlagsRaw ==
    /\ op.name = "new" => RawFlags(Store) = EmptyObject
    /\ op.name = "setFlags" => RawFlags(Store) = Deref(held, flags, flagOverrides)
    /\ op.name \notin {"new", "setFlags"} => RawFlags(Store) = RawFlags(pre)
    /\ op.name = "getFlags" =>
         /\ Deref(held, flags, flagOverrides) = RawFlags(pre)
         /\ Deref(held, flags, flagOverrides) = reference.flags

\* getFlags returned a map with a tombstone under a key that has an override.
C17_Witness ==
    /\ op.name = "getFlags"
    /\ \E K \in Keys :
         /\ HasOverride(flagOverrides, K)
         /\ K \in DOMAIN Deref(held, flags, flagOverrides)
         /\ Deref(held, flags, flagOverrides)[K].deleted

\* C18: a write by the caller to the map it gave to setFlags changes neither
\* the real layer nor anything get, getFlags and getFlagsWithOverrides return
\* afterwards.
C18_SetFlagsCopies ==
    (op.name \in CallerWriteNames /\ held.from = "setFlags") =>
        /\ flags = pre.flags
        /\ RawFlags(Store) = RawFlags(pre)
        /\ Observed(Store) = Observed(pre)

\* The caller wrote to the non-empty map it had given to setFlags, which now
\* differs from the real layer.
C18_Witness ==
    /\ op.name \in CallerWriteNames
    /\ held.from = "setFlags"
    /\ flags # EmptyObject
    /\ Deref(held, flags, flagOverrides) # flags

ReadNames == {"get", "getFlagsWithOverrides", "getFlags", "getFlagOverrides"}

\* C19: get, getFlagsWithOverrides, getFlags and getFlagOverrides leave both
\* layers as they were, the undefined-or-object state of flagOverrides
\* included; a read that repeats the read before it returns what that returned.
C19_ReadsArePure ==
    [][op'.name \in ReadNames =>
        /\ flags' = flags
        /\ flagOverrides' = flagOverrides
        /\ pre' = Store
        /\ op' = op =>
             /\ ret' = ret
             /\ Deref(held', flags', flagOverrides') = Deref(held, flags, flagOverrides)
      ]_vars

\* getFlagOverrides was called on a store with real flags and no overrides,
\* and left flagOverrides undefined.
C19_Witness ==
    /\ op.name = "getFlagOverrides"
    /\ flags # EmptyObject
    /\ pre = Store
    /\ flagOverrides = NoOverrides
    /\ held.target = "own"

====
